---- MODULE Spec2Model ----
(***************************************************************************)
(* Model of the WetSpec dashboard client (public/dashboard script) and the  *)
(* three control endpoints of dashboard/server.js.                          *)
(*                                                                          *)
(* The script is single threaded: every step below is one run-to-completion *)
(* piece of a handler, from one await (or timer, or I/O callback) to the    *)
(* next.  Timers and network responses fire in any order.                   *)
(*                                                                          *)
(* The script keeps no lifecycle variable.  The variable lifecycle records  *)
(* the state of the design's state machine at the places where the code     *)
(* performs its transitions: hideDashboard with the restart acknowledgement *)
(* (Restarting), the end of the settle delay, where polling begins          *)
(* (Reconnecting), showDashboard after a successful poll (Running),         *)
(* hideDashboard with the fatal text (Failed) and hideDashboard with the    *)
(* shutdown acknowledgement (ShuttingDown).                                 *)
(***************************************************************************)
EXTENDS Integers, Sequences, FiniteSets, TLC

(* ---------------------------------------------------------------------- *)
(* Bounds of the model                                                     *)
(* ---------------------------------------------------------------------- *)

\* number of clicks on #restart / #shutdown (handler invocations) explored
MaxHandlers == 2

\* refresh ticks are not issued while this many data requests are in flight
MaxInFlight == 1

(* ---------------------------------------------------------------------- *)
(* Program constants                                                       *)
(* ---------------------------------------------------------------------- *)

sampleInterval == 30 * 60

\* fetchRetry(url, options, n=10)
RetryBudget == 10

\* await sleep(3000) of restartHandler, in ms
SettleDelay == 3000

\* await sleep(5000) of fetchRetry, in ms
RetryDelay == 5000

\* else if (index < 12) ... simpleMovingAverage(dataset, index, 12)
SMAWindow == 12

\* y values are held in units of 1/Scale, Scale = lcm(1..12), so that the
\* division sum / numPoints of simpleMovingAverage is exact for every window
Scale == 8 * 9 * 5 * 7 * 11

maxInterval == 10 * sampleInterval * 1000

\* variant of breakMargin: six sample intervals on each side
breakMarginSix == 6 * sampleInterval * 1000

breakMargin == 3 * sampleInterval * 1000

WelcomeMessage == "Welcome to WetSpec"

TestAck == "Welcome to WetSpec."

RestartAck == "WetSpec is restarting. Please wait..."

ShutdownAck == "WetSpec is shutting down. Goodbye!"

FatalMessage == "Something went wrong while restarting the WetSpec device. You may need to manually reset it, then reload this page."

\* the value of the global `message` before any handler assigned it
Undefined == "undefined"

(* ---------------------------------------------------------------------- *)
(* Pure functions                                                          *)
(* ---------------------------------------------------------------------- *)

RECURSIVE SumBack(_, _, _)
\* the loop of simpleMovingAverage: sum of dataset[point - i].y, 0 <= i < k
\* (sequences are 1-based: JS index p is position p + 1)
SumBack(dataset, point, k) ==
    IF k = 0 THEN 0
    ELSE dataset[point - (k - 1) + 1].y + SumBack(dataset, point, k - 1)

simpleMovingAverage(dataset, point, numPoints) ==
    SumBack(dataset, point, numPoints) \div numPoints

\* variant of calculateSMADataset that pushes nothing for index 0
calculateSMADatasetSkipsFirst(dataset) ==
    [j \in 1..(Len(dataset) - 1) |->
        LET index == j
            datum == dataset[j + 1]
        IN  IF index < SMAWindow
            THEN [x |-> datum.x, y |-> simpleMovingAverage(dataset, index, index)]
            ELSE [x |-> datum.x, y |-> simpleMovingAverage(dataset, index, SMAWindow)]]

\* variant of calculateSMADataset whose growing window is index + 1
calculateSMADatasetFullWindow(dataset) ==
    [j \in 1..Len(dataset) |->
        LET index == j - 1
            datum == dataset[j]
        IN  IF index = 0 THEN datum
            ELSE IF index < SMAWindow
                 THEN [x |-> datum.x, y |-> simpleMovingAverage(dataset, index, index + 1)]
                 ELSE [x |-> datum.x, y |-> simpleMovingAverage(dataset, index, SMAWindow)]]

calculateSMADataset(dataset) ==
    [j \in 1..Len(dataset) |->
        LET index == j - 1
            datum == dataset[j]
        IN  IF index = 0 THEN datum
            ELSE IF index < SMAWindow
                 THEN [x |-> datum.x, y |-> simpleMovingAverage(dataset, index, index)]
                 ELSE [x |-> datum.x, y |-> simpleMovingAverage(dataset, index, SMAWindow)]]

RECURSIVE BreaksFromInclusive(_, _)
\* variant of BreaksFrom that also breaks a gap of exactly maxInterval (>=)
BreaksFromInclusive(data, index) ==
    IF index >= Len(data) THEN << >>
    ELSE LET datum == data[index + 1]
         IN  IF index # Len(data) - 1
                /\ data[index + 2].x - datum.x >= maxInterval
             THEN << [startValue |-> datum.x + breakMargin,
                      endValue |-> data[index + 2].x - breakMargin] >>
                  \o BreaksFromInclusive(data, index + 1)
             ELSE BreaksFromInclusive(data, index + 1)

RECURSIVE BreaksFrom(_, _)
\* the forEach of getXBreaks from JS index `index` on
BreaksFrom(data, index) ==
    IF index >= Len(data) THEN << >>
    ELSE LET datum == data[index + 1]
         IN  IF index # Len(data) - 1
                /\ data[index + 2].x - datum.x > maxInterval
             THEN << [startValue |-> datum.x + breakMargin,
                      endValue |-> data[index + 2].x - breakMargin] >>
                  \o BreaksFrom(data, index + 1)
             ELSE BreaksFrom(data, index + 1)

getXBreaks(data) == BreaksFrom(data, 0)

\* `<p>${message}</p>`
Html(m) == << "p", m >>

\* $('#message').html('')
EmptyHtml == << >>

(* ---------------------------------------------------------------------- *)
(* Inputs                                                                  *)
(* ---------------------------------------------------------------------- *)

\* time of the first reading of the payloads, in ms
T0 == 1000000

\* data.json: three readings half an hour apart
PayloadUniform ==
    << [time |-> T0, temp |-> 50 * Scale, humidity |-> 40 * Scale],
       [time |-> T0 + sampleInterval * 1000, temp |-> 52 * Scale,
        humidity |-> 41 * Scale + Scale \div 2],
       [time |-> T0 + 2 * sampleInterval * 1000, temp |-> 54 * Scale,
        humidity |-> 43 * Scale] >>

\* data.json: two readings eleven sample intervals apart (an overnight gap)
PayloadGap ==
    << [time |-> T0, temp |-> 61 * Scale + Scale \div 4, humidity |-> 55 * Scale],
       [time |-> T0 + 11 * sampleInterval * 1000, temp |-> 64 * Scale,
        humidity |-> 57 * Scale] >>

Payloads == { PayloadUniform, PayloadGap }

\* parseFloat of a numeric string: the number itself
parseFloat(v) == v

\* parseInt of a numeric string: its integer part (values here are >= 0)
parseInt(v) == (v \div Scale) * Scale

(* ---------------------------------------------------------------------- *)
(* State                                                                   *)
(* ---------------------------------------------------------------------- *)

VARIABLES
    handlers,     \* handlers[i]: position of the i-th click's handler
    display,      \* css display of #chartContainer, .control-button, .title
    messageHtml,  \* content of #message
    message,      \* the script's global `message`
    timers,       \* number of setInterval timers armed
    dwell,        \* number of showDashboard calls sleeping before the clear
    inFlight,     \* number of $.getJSON("data.json") requests in flight
    chart,        \* chart.options: dataPoints of the 4 series, customBreaks
    lifecycle     \* state of the lifecycle state machine

vars == << handlers, display, messageHtml, message, timers, dwell, inFlight,
           chart, lifecycle >>

Slots == 1..MaxHandlers

\* a handler: which one (kind), the await it is suspended at (pc), the n of
\* the fetchRetry call it is in, the number of fetch('test') calls it has
\* issued so far (polls) and the delay of the sleep it is in (sleep, in ms,
\* 0 when it is not sleeping)
Idle == [kind |-> "none", pc |-> "idle", n |-> 0, polls |-> 0, sleep |-> 0]

Hidden == [chartContainer |-> "none", controlButton |-> "none", title |-> "none"]

Shown == [chartContainer |-> "block", controlButton |-> "block", title |-> "block"]

\* chart.options after new CanvasJS.Chart: dataPoints and customBreaks are
\* null (isNull), no series is held
NullChart ==
    [isNull |-> TRUE, tempData |-> << >>, humidityData |-> << >>,
     tempSMA |-> << >>, humiditySMA |-> << >>, customBreaks |-> << >>]

\* the body of the $.getJSON callback of updateChart
Rendered(data) ==
    LET tempData == [j \in 1..Len(data) |->
                        [x |-> data[j].time, y |-> parseFloat(data[j].temp)]]
        humidityData == [j \in 1..Len(data) |->
                        [x |-> data[j].time, y |-> parseInt(data[j].humidity)]]
    IN  [isNull |-> FALSE, tempData |-> tempData, humidityData |-> humidityData,
         tempSMA |-> calculateSMADataset(tempData),
         humiditySMA |-> calculateSMADataset(humidityData),
         customBreaks |-> getXBreaks(tempData)]

\* window.onload has run: showDashboard('Welcome to WetSpec') is at its await
Init ==
    /\ handlers = [i \in Slots |-> Idle]
    /\ display = Shown
    /\ messageHtml = Html(WelcomeMessage)
    /\ message = Undefined
    /\ timers = 1
    /\ dwell = 1
    /\ inFlight = 1
    /\ chart = NullChart
    /\ lifecycle = "Running"

(* ---------------------------------------------------------------------- *)
(* Helpers of the handlers                                                 *)
(* ---------------------------------------------------------------------- *)

\* variant of hideDashboard that leaves the control buttons displayed
hideDashboardKeepsControls(m) ==
    /\ display' = [Hidden EXCEPT !.controlButton = "block"]
    /\ messageHtml' = Html(m)

\* hideDashboard(m): the three elements get display none, #message gets m
hideDashboard(m) ==
    /\ display' = Hidden
    /\ messageHtml' = Html(m)

\* variant of showDashboard that shows the message and never clears it
showDashboardKeepsMessage(m) ==
    /\ inFlight' = inFlight + 1
    /\ display' = Shown
    /\ timers' = timers + 1
    /\ IF m # ""
       THEN messageHtml' = Html(m) /\ dwell' = dwell
       ELSE UNCHANGED << messageHtml, dwell >>

\* showDashboard(m), up to its await: one updateChart, the three elements
\* shown, one more setInterval, and for m # '' the message and the dwell
showDashboard(m) ==
    /\ inFlight' = inFlight + 1
    /\ display' = Shown
    /\ timers' = timers + 1
    /\ IF m # ""
       THEN messageHtml' = Html(m) /\ dwell' = dwell + 1
       ELSE UNCHANGED << messageHtml, dwell >>

\* a user can click the buttons only while they are displayed
Clickable == display.controlButton = "block"

Started(i) == handlers[i].pc # "idle"

(* ---------------------------------------------------------------------- *)
(* Actions                                                                 *)
(* ---------------------------------------------------------------------- *)

\* variant of ClickRestart that hides the dashboard before the command is
\* acknowledged
ClickRestartHidesFirst(i) ==
    /\ Clickable
    /\ ~Started(i)
    /\ \A j \in Slots : j < i => Started(j)
    /\ handlers' = [handlers EXCEPT ![i] = [Idle EXCEPT !.kind = "restart", !.pc = "ack"]]
    /\ hideDashboard(RestartAck)
    /\ UNCHANGED << message, timers, dwell, inFlight, chart, lifecycle >>

\* $('#restart').click(restartHandler): fetch('restart') is issued
ClickRestart(i) ==
    /\ Clickable
    /\ ~Started(i)
    /\ \A j \in Slots : j < i => Started(j)
    /\ handlers' = [handlers EXCEPT ![i] = [Idle EXCEPT !.kind = "restart", !.pc = "ack"]]
    /\ UNCHANGED << display, messageHtml, message, timers, dwell, inFlight,
                    chart, lifecycle >>

\* $('#shutdown').click(shutdownHandler): fetch('shutdown') is issued
ClickShutdown(i) ==
    /\ Clickable
    /\ ~Started(i)
    /\ \A j \in Slots : j < i => Started(j)
    /\ handlers' = [handlers EXCEPT ![i] = [Idle EXCEPT !.kind = "shutdown", !.pc = "ack"]]
    /\ UNCHANGED << display, messageHtml, message, timers, dwell, inFlight,
                    chart, lifecycle >>

\* variant of RestartAcked without the settle delay: the first poll is
\* issued with the acknowledgement
RestartAckedPollsAtOnce(i) ==
    /\ handlers[i].kind = "restart" /\ handlers[i].pc = "ack"
    /\ message' = RestartAck
    /\ hideDashboard(message')
    /\ lifecycle' = "Reconnecting"
    /\ handlers' = [handlers EXCEPT ![i].pc = "poll", ![i].n = RetryBudget,
                                    ![i].polls = 1]
    /\ UNCHANGED << timers, dwell, inFlight, chart >>

\* restartHandler: fetch('restart') has resolved and response.text() has
\* delivered the acknowledgement (two awaits with nothing in between, one
\* step); hideDashboard(message), then sleep(3000)
RestartAcked(i) ==
    /\ handlers[i].kind = "restart" /\ handlers[i].pc = "ack"
    /\ message' = RestartAck
    /\ hideDashboard(message')
    /\ lifecycle' = "Restarting"
    /\ handlers' = [handlers EXCEPT ![i].pc = "settle", ![i].sleep = SettleDelay]
    /\ UNCHANGED << timers, dwell, inFlight, chart >>

\* shutdownHandler: fetch('shutdown') has resolved and response.text() has
\* delivered the acknowledgement; hideDashboard(message)
ShutdownAcked(i) ==
    /\ handlers[i].kind = "shutdown" /\ handlers[i].pc = "ack"
    /\ message' = ShutdownAck
    /\ hideDashboard(message')
    /\ lifecycle' = "ShuttingDown"
    /\ handlers' = [handlers EXCEPT ![i].pc = "halted"]
    /\ UNCHANGED << timers, dwell, inFlight, chart >>

\* variant of CommandFails in which the failure is caught and reported like
\* a failed reconnection
CommandFailsReported(i) ==
    /\ handlers[i].pc = "ack"
    /\ message' = FatalMessage
    /\ hideDashboard(message')
    /\ lifecycle' = "Failed"
    /\ handlers' = [handlers EXCEPT ![i].pc = "aborted"]
    /\ UNCHANGED << timers, dwell, inFlight, chart >>

\* fetch('restart') / fetch('shutdown') or its response.text() rejects: the
\* handler's promise rejects and nothing after the await runs
CommandFails(i) ==
    /\ handlers[i].pc = "ack"
    /\ handlers' = [handlers EXCEPT ![i].pc = "aborted"]
    /\ UNCHANGED << display, messageHtml, message, timers, dwell, inFlight,
                    chart, lifecycle >>

\* sleep(3000) of restartHandler is over: fetchRetry('test') issues the
\* first fetch with n = 10
SettleElapsed(i) ==
    /\ handlers[i].pc = "settle"
    /\ handlers' = [handlers EXCEPT ![i].pc = "poll", ![i].n = RetryBudget,
                                    ![i].polls = 1, ![i].sleep = 0]
    /\ lifecycle' = "Reconnecting"
    /\ UNCHANGED << display, messageHtml, message, timers, dwell, inFlight, chart >>

\* variant of LastAttempt that gives up one attempt late (n === 0)
LastAttemptOffByOne(n) == n = 0

\* fetchRetry: if (n === 1) throw err
LastAttempt(n) == n = 1

\* restartHandler: the catch block
CatchFailure(i) ==
    /\ message' = FatalMessage
    /\ hideDashboard(message')
    /\ lifecycle' = "Failed"
    /\ handlers' = [handlers EXCEPT ![i].pc = "failed", ![i].n = 0, ![i].polls = 0]

\* variant of PollRejects with a backoff: the wait grows with the attempts
PollRejectsBackoff(i) ==
    /\ handlers[i].pc = "poll"
    /\ IF LastAttempt(handlers[i].n)
       THEN CatchFailure(i)
       ELSE /\ handlers' = [handlers EXCEPT ![i].pc = "wait",
                                            ![i].sleep = RetryDelay * handlers[i].polls]
            /\ UNCHANGED << display, messageHtml, message, lifecycle >>
    /\ UNCHANGED << timers, dwell, inFlight, chart >>

\* fetchRetry: fetch('test') rejects.  On the last attempt the error goes
\* to the catch of restartHandler, otherwise sleep(5000)
PollRejects(i) ==
    /\ handlers[i].pc = "poll"
    /\ IF LastAttempt(handlers[i].n)
       THEN CatchFailure(i)
       ELSE /\ handlers' = [handlers EXCEPT ![i].pc = "wait", ![i].sleep = RetryDelay]
            /\ UNCHANGED << display, messageHtml, message, lifecycle >>
    /\ UNCHANGED << timers, dwell, inFlight, chart >>

\* fetchRetry: sleep(5000) is over, fetchRetry(url, options, n - 1) issues
\* the next fetch
RetryDelayElapsed(i) ==
    /\ handlers[i].pc = "wait"
    /\ handlers' = [handlers EXCEPT ![i].pc = "poll", ![i].n = handlers[i].n - 1,
                                    ![i].polls = handlers[i].polls + 1,
                                    ![i].sleep = 0]
    /\ UNCHANGED << display, messageHtml, message, timers, dwell, inFlight,
                    chart, lifecycle >>

\* fetch('test') resolves, fetchRetry returns the response through all
\* its frames and response.text() delivers the acknowledgement of /test:
\* showDashboard(message)
PollSucceeds(i) ==
    /\ handlers[i].pc = "poll"
    /\ message' = TestAck
    /\ showDashboard(message')
    /\ lifecycle' = "Running"
    /\ handlers' = [handlers EXCEPT ![i].pc = "done", ![i].n = 0, ![i].polls = 0]
    /\ UNCHANGED chart

\* fetch('test') resolves but response.text() rejects inside the try of
\* restartHandler: the catch shows the fatal text
PollBodyFails(i) ==
    /\ handlers[i].pc = "poll"
    /\ CatchFailure(i)
    /\ UNCHANGED << timers, dwell, inFlight, chart >>

\* showDashboard: sleep(3000) is over, $('#message').html('')
DwellElapsed ==
    /\ dwell > 0
    /\ dwell' = dwell - 1
    /\ messageHtml' = EmptyHtml
    /\ UNCHANGED << handlers, display, message, timers, inFlight, chart, lifecycle >>

\* a setInterval timer fires: updateChart issues $.getJSON("data.json")
Tick ==
    /\ timers > 0
    /\ inFlight < MaxInFlight
    /\ inFlight' = inFlight + 1
    /\ UNCHANGED << handlers, display, messageHtml, message, timers, dwell,
                    chart, lifecycle >>

\* the callback of $.getJSON runs with the parsed data and renders
DataArrives(data) ==
    /\ inFlight > 0
    /\ inFlight' = inFlight - 1
    /\ chart' = Rendered(data)
    /\ UNCHANGED << handlers, display, messageHtml, message, timers, dwell, lifecycle >>

\* variant of DataFails in which a failed request empties the chart
DataFailsClearsChart ==
    /\ inFlight > 0
    /\ inFlight' = inFlight - 1
    /\ chart' = NullChart
    /\ UNCHANGED << handlers, display, messageHtml, message, timers, dwell, lifecycle >>

\* the request fails or the payload is no JSON: $.getJSON was given a
\* success callback only, nothing runs
DataFails ==
    /\ inFlight > 0
    /\ inFlight' = inFlight - 1
    /\ UNCHANGED << handlers, display, messageHtml, message, timers, dwell,
                    chart, lifecycle >>

Next ==
    \/ \E i \in Slots : ClickRestart(i)
    \/ \E i \in Slots : ClickShutdown(i)
    \/ \E i \in Slots : RestartAcked(i)
    \/ \E i \in Slots : ShutdownAcked(i)
    \/ \E i \in Slots : CommandFails(i)
    \/ \E i \in Slots : SettleElapsed(i)
    \/ \E i \in Slots : PollRejects(i)
    \/ \E i \in Slots : RetryDelayElapsed(i)
    \/ \E i \in Slots : PollSucceeds(i)
    \/ \E i \in Slots : PollBodyFails(i)
    \/ DwellElapsed
    \/ Tick
    \/ \E data \in Payloads : DataArrives(data)
    \/ DataFails

Spec == Init /\ [][Next]_vars

(* ---------------------------------------------------------------------- *)
(* Properties                                                              *)
(* ---------------------------------------------------------------------- *)

Terminal == {"Failed", "ShuttingDown"}

\* handler i is inside its reconnection sequence
Reconnecting(i) == handlers[i].pc \in {"poll", "wait"}

\* this step starts handler i: a command is sent to the device
CommandSent(i) == ~Started(i) /\ Started(i)'

\* C1: the liveness endpoint is polled at most RetryBudget (10) times by a
\* restart: a poll that fails with budget left is followed by a wait, the
\* 10th poll is never followed by a wait, a poll that succeeds ends the
\* sequence in Running with the dashboard shown, and the 10th failure ends
\* it in Failed with the dashboard hidden and the fatal text shown.
C1_PollBudget ==
    [][\A i \in Slots :
        /\ handlers'[i].polls <= RetryBudget
        /\ (handlers'[i].pc = "poll" /\ handlers'[i] # handlers[i])
              => handlers'[i].polls = handlers[i].polls + 1
        /\ (handlers[i].pc = "poll" /\ handlers'[i] # handlers[i])
              => \/ /\ handlers'[i].pc = "wait"
                    /\ handlers[i].polls < RetryBudget
                 \/ /\ handlers'[i].pc = "done"
                    /\ lifecycle' = "Running"
                    /\ display' = Shown
                 \/ /\ handlers'[i].pc = "failed"
                    /\ lifecycle' = "Failed"
                    /\ display' = Hidden
                    /\ messageHtml' = Html(FatalMessage)
        /\ (handlers[i].pc = "poll" /\ handlers[i].polls = RetryBudget)
              => handlers'[i].pc \in {"poll", "done", "failed"}
      ]_vars

\* the 10th poll of a restart is in flight, after nine failed ones
C1_TenthPoll ==
    \E i \in Slots : handlers[i].pc = "poll" /\ handlers[i].polls = RetryBudget

\* C2: while the lifecycle state is not Running no refresh tick fires: no
\* step taken outside Running issues a data request.
C2_SchedulerSuppressed ==
    [][(lifecycle # "Running" /\ lifecycle' # "Running") => inFlight' <= inFlight]_vars

\* C3: at most one periodic refresh timer is armed.
C3_SingleTimer == timers <= 1

\* C4: a restart or shutdown request is acted upon (a command is sent) only
\* in Running and only while no earlier request awaits its acknowledgement.
C4_RequestsOutsideRunningIgnored ==
    [][\A i \in Slots :
        CommandSent(i) => /\ lifecycle = "Running"
                          /\ \A j \in Slots : handlers[j].pc # "ack"
      ]_vars

\* C5: Failed and ShuttingDown are absorbing: once entered, the lifecycle
\* state never changes and the chart and controls stay hidden.
C5_TerminalAbsorbing ==
    [][(lifecycle \in Terminal) => (lifecycle' = lifecycle /\ display' = Hidden)]_vars

\* C6: a terminal message (shutdown acknowledgement in ShuttingDown, fatal
\* text in Failed), once displayed, stays in the message area.
C6_TerminalMessagePersists ==
    [][(/\ lifecycle \in Terminal
        /\ messageHtml \in {Html(ShutdownAck), Html(FatalMessage)})
          => messageHtml' = messageHtml]_vars

\* the text the message area shows on entering a state other than Running
StateText(st) ==
    CASE st = "Restarting" -> RestartAck
      [] st = "Reconnecting" -> RestartAck
      [] st = "ShuttingDown" -> ShutdownAck
      [] st = "Failed" -> FatalMessage
      [] OTHER -> ""

C8_StoppedBeforeCommand ==
    [][\A i \in Slots : (CommandSent(i) => timers' = 0)]_vars

\* C9: nothing but success or the exhaustion of the attempt budget ends a
\* reconnection sequence: a handler leaves it either to Running or, after
\* its 10th poll, to Failed.
C9_OnlySuccessOrExhaustion ==
    [][\A i \in Slots :
        (Reconnecting(i) /\ ~Reconnecting(i)')
          => \/ handlers'[i].pc = "done"
             \/ handlers'[i].pc = "failed" /\ handlers[i].polls = RetryBudget
      ]_vars

\* C10: a data request that fails changes nothing but the request itself:
\* the chart's series and breaks, the visible UI and the lifecycle state are
\* as before and the periodic timer stays armed.
C10_FailedTickSkipped ==
    [][DataFails => /\ chart' = chart
                    /\ display' = display
                    /\ messageHtml' = messageHtml
                    /\ lifecycle' = lifecycle
                    /\ timers' = timers
                    /\ timers' > 0
      ]_vars

\* every request so far has failed: the chart still holds no series, the
\* dashboard is shown and the timer is armed
C10_AllRequestsFailed ==
    /\ inFlight = 0
    /\ chart = NullChart
    /\ display = Shown
    /\ timers > 0

\* C11: a data response that arrives while the dashboard is suppressed (the
\* lifecycle state is not Running) is discarded: it leaves the series and
\* breaks held by the chart as they were.
C11_LateResponseDiscarded ==
    [][(lifecycle # "Running" /\ lifecycle' # "Running") => chart' = chart]_vars

(* ---------------------------------------------------------------------- *)
(* The series functions on their own: the first data response on a fresh  *)
(* page, for every payload of a bounded set                               *)
(* ---------------------------------------------------------------------- *)

\* longest payload of readings half an hour apart
MaxSeriesLen == 13

\* longest payload with uneven spacing
MaxGapLen == 4

\* three-valued payloads are taken up to this length
ShortLen == 3

\* readings (in degrees / percent) of the long and of the short payloads
LongValues == {50, 54}

ShortValues == {50, 52, 54}

\* time between two readings, in ms: the expected interval, exactly ten
\* intervals, one ms more, eleven intervals
Gaps == { sampleInterval * 1000, 10 * sampleInterval * 1000,
          10 * sampleInterval * 1000 + 1, 11 * sampleInterval * 1000 }

\* data.json with readings ys half an hour apart; the humidity strings carry
\* a fraction that parseInt drops
UniformPayload(ys) ==
    [j \in 1..Len(ys) |->
        [time |-> T0 + (j - 1) * sampleInterval * 1000,
         temp |-> ys[j] * Scale,
         humidity |-> ys[j] * Scale + Scale \div 2]]

RECURSIVE TimeAt(_, _)
\* time of the j-th reading when gs[k] ms lie between readings k and k + 1
TimeAt(gs, j) == IF j = 1 THEN T0 ELSE TimeAt(gs, j - 1) + gs[j - 1]

\* data.json with n readings spaced by gs
GapPayload(n, gs) ==
    [j \in 1..n |-> [time |-> TimeAt(gs, j), temp |-> 60 * Scale,
                     humidity |-> 45 * Scale]]

\* the first response to the updateChart of window.onload
FirstRender(data) ==
    /\ chart = NullChart
    /\ DataArrives(data)

\* the response carries any evenly spaced payload of up to MaxSeriesLen
\* readings of LongValues or up to ShortLen readings of ShortValues, or any
\* payload of up to MaxGapLen readings spaced by Gaps
SeriesNext ==
    /\ chart = NullChart
    /\ \/ \E n \in 0..MaxSeriesLen : \E ys \in [1..n -> LongValues] :
              FirstRender(UniformPayload(ys))
       \/ \E n \in 0..ShortLen : \E ys \in [1..n -> ShortValues] :
              FirstRender(UniformPayload(ys))
       \/ \E n \in 1..MaxGapLen : \E gs \in [1..(n - 1) -> Gaps] :
              FirstRender(GapPayload(n, gs))

SeriesSpec == Init /\ [][SeriesNext]_vars

\* the raw and smoothed series the chart holds, per quantity
ChartSeries ==
    { << chart.tempData, chart.tempSMA >>, << chart.humidityData, chart.humiditySMA >> }

\* C12: the smoothed series has the length of the raw series, the same
\* timestamp at every position and, when not empty, the raw value at
\* position 0; an empty series smooths to an empty series.
C12_SmoothShape ==
    ~chart.isNull =>
        \A p \in ChartSeries :
            LET raw == p[1]
                sma == p[2]
            IN  /\ Len(sma) = Len(raw)
                /\ \A j \in 1..Len(raw) : sma[j].x = raw[j].x
                /\ Len(raw) >= 1 => sma[1].y = raw[1].y
                /\ Len(raw) = 0 => sma = << >>

\* a series long enough for the fixed window has been smoothed
C12_LongSeriesSmoothed ==
    /\ ~chart.isNull
    /\ Len(chart.tempData) = MaxSeriesLen
    /\ Len(chart.tempSMA) = MaxSeriesLen
    /\ chart.tempSMA[1].y = chart.tempData[1].y

RECURSIVE SumRange(_, _, _)
\* sum of the y values of positions lo..hi of a series
SumRange(seq, lo, hi) ==
    IF lo > hi THEN 0 ELSE seq[lo].y + SumRange(seq, lo + 1, hi)

\* the y values of a series, in whole units
Values(seq) == [j \in 1..Len(seq) |-> seq[j].y \div Scale]

\* C13: at index i (position i + 1) with 0 < i < 12 the smoothed value is the
\* mean of the i raw values ending at i, for i >= 12 the mean of the 12 raw
\* values ending at i; the raw values 50, 52, 54 smooth to 50, 52, 53.
C13_WindowRule ==
    ~chart.isNull =>
        /\ \A p \in ChartSeries :
              LET raw == p[1]
                  sma == p[2]
              IN  \A j \in 2..Len(raw) :
                    LET i == j - 1
                        w == IF i < 12 THEN i ELSE 12
                    IN  /\ Len(sma) >= j
                        /\ sma[j].y * w = SumRange(raw, j - w + 1, j)
        /\ Values(chart.tempData) = << 50, 52, 54 >>
              => Values(chart.tempSMA) = << 50, 52, 53 >>

\* a series reaching index 12 has been smoothed, and its oldest readings
\* differ, so that the window's extent shows in the result
C13_FixedWindowReached ==
    /\ ~chart.isNull
    /\ Len(chart.tempData) >= 13
    /\ Len(chart.tempSMA) >= 13
    /\ chart.tempData[1].y # chart.tempData[2].y
    /\ chart.tempSMA[13].y * 12 = SumRange(chart.tempData, 2, 13)

\* positions j of a series whose successor is more than ten sample intervals
\* later (sampleInterval is in seconds, x in ms)
WideGaps(raw) ==
    { j \in 1..(Len(raw) - 1) : raw[j + 1].x - raw[j].x > 10 * sampleInterval * 1000 }

\* C14: the breaks are, in series order, one per adjacent pair more than ten
\* sample intervals apart, from three intervals after the first sample to
\* three intervals before the second; no other pair, and no series shorter
\* than two samples, yields a break.
C14_BreaksPerWideGap ==
    ~chart.isNull =>
        LET raw == chart.tempData
            brk == chart.customBreaks
            wide == WideGaps(raw)
        IN  /\ Len(brk) = Cardinality(wide)
            /\ \A j \in wide :
                  LET k == Cardinality({ m \in wide : m <= j })
                  IN  /\ brk[k].startValue = raw[j].x + 3 * sampleInterval * 1000
                      /\ brk[k].endValue = raw[j + 1].x - 3 * sampleInterval * 1000
            /\ Len(raw) < 2 => brk = << >>

\* two wide gaps in a row gave two breaks, next to a gap of exactly ten
\* intervals that gave none
C14_TwoBreaksUnmerged ==
    /\ ~chart.isNull
    /\ Len(chart.tempData) = 4
    /\ chart.tempData[2].x - chart.tempData[1].x = 10 * sampleInterval * 1000
    /\ WideGaps(chart.tempData) = {2, 3}
    /\ Len(chart.customBreaks) = 2

\* C19: with strictly increasing timestamps every break is well formed and
\* keeps its margin: it starts before it ends, lies strictly between two
\* adjacent samples, ends before the next break starts, and contains no
\* sample.
C19_BreaksWellFormed ==
    ~chart.isNull =>
        LET raw == chart.tempData
            brk == chart.customBreaks
        IN  (\A j \in 1..(Len(raw) - 1) : raw[j].x < raw[j + 1].x) =>
              /\ \A k \in 1..Len(brk) :
                    /\ brk[k].startValue < brk[k].endValue
                    /\ \E j \in 1..(Len(raw) - 1) :
                          /\ raw[j].x < brk[k].startValue
                          /\ brk[k].endValue < raw[j + 1].x
                    /\ \A j \in 1..Len(raw) :
                          ~(brk[k].startValue <= raw[j].x /\ raw[j].x <= brk[k].endValue)
              /\ \A k \in 1..(Len(brk) - 1) : brk[k].endValue < brk[k + 1].startValue

\* the narrowest gap that is broken (ten intervals and one ms) has its break,
\* and another break follows it
C19_NarrowestBreak ==
    /\ ~chart.isNull
    /\ Len(chart.customBreaks) = 2
    /\ chart.tempData[2].x - chart.tempData[1].x = 10 * sampleInterval * 1000 + 1
    /\ chart.customBreaks[1].endValue - chart.customBreaks[1].startValue
          = 4 * sampleInterval * 1000 + 1

\* the text server.js sends in answer to the command of a handler
AckText(kind) == IF kind = "restart" THEN RestartAck ELSE ShutdownAck

\* the command of handler i has been acknowledged
Acked(i) == handlers[i].pc \in {"settle", "poll", "wait", "done", "failed", "halted"}

\* C15: the command is sent first and the UI is suppressed afterwards:
\* sending a command changes nothing on the page, the dashboard is hidden
\* only by a handler whose command has been acknowledged, and a handler that
\* receives its acknowledgement hides the dashboard and shows exactly the
\* text returned for its command.
C15_CommandThenSuppress ==
    [][/\ \A i \in Slots :
            /\ CommandSent(i) => (display' = display /\ messageHtml' = messageHtml)
            /\ (handlers[i].pc = "ack" /\ Acked(i)')
                  => /\ display' = Hidden
                     /\ messageHtml' = Html(AckText(handlers[i].kind))
       /\ (display' = Hidden /\ display # Hidden)
            => \E i \in Slots : handlers'[i] # handlers[i] /\ Acked(i)'
       /\ display' = Hidden => \E i \in Slots : Acked(i)'
      ]_vars

\* a shutdown has been acknowledged: dashboard hidden, its text shown
C15_ShutdownSuppressed ==
    /\ display = Hidden
    /\ messageHtml = Html(ShutdownAck)
    /\ \E i \in Slots : handlers[i].kind = "shutdown" /\ handlers[i].pc = "halted"

\* C16: no liveness poll is issued before the restart command has been
\* acknowledged and the 3000 ms settle delay, started at the
\* acknowledgement, has elapsed: a handler enters its settle sleep only from
\* the awaited acknowledgement, and its first poll is issued only by the end
\* of that sleep.
C16_SettleBeforeFirstPoll ==
    [][\A i \in Slots :
        /\ handlers[i].pc \in {"idle", "ack"} => handlers'[i].polls = 0
        /\ (handlers'[i].pc = "settle" /\ handlers[i].pc # "settle")
              => /\ handlers[i].pc = "ack"
                 /\ handlers'[i].sleep = 3000
                 /\ handlers'[i].polls = 0
        /\ (handlers'[i].pc = "settle" /\ handlers[i].pc = "settle")
              => handlers'[i].sleep = handlers[i].sleep
        /\ (handlers'[i].polls > 0 /\ handlers[i].polls = 0)
              => /\ handlers[i].pc = "settle"
                 /\ handlers[i].sleep = 3000
                 /\ handlers'[i].polls = 1
      ]_vars

\* the first poll of a restart is in flight
C16_FirstPollIssued ==
    \E i \in Slots : handlers[i].pc = "poll" /\ handlers[i].polls = 1

\* C17: every poll but the first is issued by the end of one 5000 ms wait;
\* a wait is started only by a failed poll, has the same delay at every
\* attempt and is followed by the next poll; the 10th poll is followed by no
\* wait: its failure enters Failed in the same step.
C17_OneFixedWaitBetweenPolls ==
    [][\A i \in Slots :
        /\ (handlers'[i].pc = "poll" /\ handlers'[i].polls > 1 /\ handlers'[i] # handlers[i])
              => /\ handlers[i].pc = "wait"
                 /\ handlers[i].sleep = 5000
                 /\ handlers'[i].polls = handlers[i].polls + 1
        /\ (handlers'[i].pc = "wait" /\ handlers'[i] # handlers[i])
              => /\ handlers[i].pc = "poll"
                 /\ handlers'[i].sleep = 5000
                 /\ handlers'[i].polls = handlers[i].polls
        /\ (handlers[i].pc = "wait" /\ handlers'[i] # handlers[i])
              => handlers'[i].pc = "poll"
        /\ (handlers[i].pc = "poll" /\ handlers[i].polls = 10 /\ handlers'[i] # handlers[i])
              => \/ handlers'[i].pc = "done"
                 \/ handlers'[i].pc = "failed" /\ lifecycle' = "Failed"
      ]_vars

\* nine polls of a restart have failed and the wait before the 10th is on
C17_WaitBeforeTenthPoll ==
    \E i \in Slots :
        handlers[i].pc = "wait" /\ handlers[i].polls = 9 /\ handlers[i].sleep = 5000

\* C20: a command request that fails ends its handler there: the step
\* hides nothing, shows no message, leaves the lifecycle state and the
\* refresh timers as they were, and the handler never sleeps or polls
\* afterwards.
C20_FailedCommandStops ==
    [][\A i \in Slots :
        /\ (handlers[i].pc = "ack" /\ handlers'[i].pc = "aborted")
              => /\ display' = display
                 /\ messageHtml' = messageHtml
                 /\ lifecycle' = lifecycle
                 /\ timers' = timers
                 /\ inFlight' = inFlight
                 /\ handlers'[i].polls = 0
                 /\ handlers'[i].sleep = 0
        /\ handlers[i].pc = "aborted" => handlers'[i] = handlers[i]
      ]_vars

\* the only request made so far has failed: still Running, dashboard shown,
\* the timer of the page load armed
C20_OnlyRequestFailed ==
    /\ handlers[1].pc = "aborted"
    /\ \A j \in Slots : j # 1 => handlers[j].pc = "idle"
    /\ lifecycle = "Running"
    /\ display = Shown
    /\ timers = 1

\* a timer set by sleep fires: the dwell of showDashboard always ends
LiveSpec == Init /\ [][Next]_vars /\ WF_vars(DwellElapsed)

\* C18: a successful poll re-shows the dashboard with the liveness
\* acknowledgement in the message area and starts a dwell, and a displayed
\* liveness acknowledgement is eventually cleared: the message area becomes
\* empty.
C18_TransientMessageCleared ==
    /\ [][\A i \in Slots :
            (handlers[i].pc = "poll" /\ handlers'[i].pc = "done")
              => /\ lifecycle' = "Running"
                 /\ display' = Shown
                 /\ messageHtml' = Html(TestAck)
                 /\ dwell' = dwell + 1
         ]_vars
    /\ (lifecycle = "Running" /\ messageHtml = Html(TestAck)) ~> (messageHtml = EmptyHtml)

\* back in Running after a reconnection with every dwell over and the
\* message area empty
C18_MessageClearedInRunning ==
    /\ lifecycle = "Running"
    /\ display = Shown
    /\ messageHtml = EmptyHtml
    /\ dwell = 0
    /\ \E i \in Slots : handlers[i].pc = "done"

====
